---- MODULE Spec2Model ----
(***************************************************************************)
(* dns-updater: per-provider pipelines (IpGrabber -> DynDns::update ->     *)
(* shared channel -> Persistence writer), the provider persistence keys    *)
(* and the Persistence store.                                              *)
(***************************************************************************)
EXTENDS Integers, Sequences, FiniteSets, TLC

VARIABLES
    to_parse,   \* the configuration text given to parse_dns_tuples
    cfg,        \* Vec<Box<dyn DynDns>>: the constructed providers, in order
    rpc,        \* where the process is: "input", "config", "new", "failed", "ready", "running", "returned"
    file_paths, \* Persistence.file_paths
    files,      \* the filesystem: path -> content (NoFile when the file does not exist)
    gpc,        \* per pipeline: where IpGrabber::run is
    last_ip,    \* per pipeline: IpGrabber.last_ip (None or an address)
    polled,     \* per pipeline: the result of the last get_updated()
    polls,      \* per pipeline: the results of the get_updated() calls so far (history)
    gch,        \* per pipeline: the private channel (gs, gr)
    ppc,        \* per pipeline: where the update loop of Runner::run is
    pip,        \* per pipeline: the address the update loop holds
    shared,     \* the shared channel (sender, receiver)
    inflight,   \* replace_ip calls in progress
    wpc,        \* where the writer loop of Runner::run is
    emitted,    \* history: per pipeline, the addresses its Grabber sent
    updates,    \* history: per pipeline, the update() calls and their outcome
    replaced,   \* history: per pipeline, the replace_ip calls made for its messages
    op          \* the last direct call of a Persistence operation and its outcome

vars == <<to_parse, cfg, rpc, file_paths, files, gpc, last_ip, polled, polls, gch, ppc,
          pip, shared, inflight, wpc, emitted, updates, replaced, op>>

(***************************************************************************)
(* Bounds of the model.                                                    *)
(***************************************************************************)
MaxPolls == 3
MaxProviders == 2

\* Option::None of an address, the absence of a path, the absence of a file
None == [v |-> "None", b |-> <<>>]
NoPath == ""
NoFile == "NoFile"

(***************************************************************************)
(* Text.                                                                   *)
(***************************************************************************)
Chr(s, i) == SubSeq(s, i, i)

Digits == "0123456789abcdef"

DigitChar(d) == Chr(Digits, d + 1)

RECURSIVE Radix(_, _)
Radix(n, base) ==
    IF n < base THEN DigitChar(n)
    ELSE Radix(n \div base, base) \o DigitChar(n % base)

\* the value of one digit character in the given base, -1 when it is none
DigitVal(c, base) ==
    LET low == {d \in 0..(base - 1) : DigitChar(d) = c}
        up  == {d \in 10..(base - 1) : Chr("ABCDEF", d - 9) = c}
    IN  IF low # {} THEN CHOOSE d \in low : TRUE
        ELSE IF up # {} THEN CHOOSE d \in up : TRUE
        ELSE -1

RECURSIVE from_str_radix(_, _)
from_str_radix(s, base) ==
    IF s = "" THEN -1
    ELSE LET d == DigitVal(Chr(s, Len(s)), base)
         IN  IF d < 0 THEN -1
             ELSE IF Len(s) = 1 THEN d
             ELSE LET r == from_str_radix(SubSeq(s, 1, Len(s) - 1), base)
                  IN  IF r < 0 THEN -1 ELSE r * base + d

EndsWith(s, suf) ==
    Len(suf) <= Len(s) /\ SubSeq(s, Len(s) - Len(suf) + 1, Len(s)) = suf

\* the first position at or after i where sep starts in s, 0 when there is none
RECURSIVE Find(_, _, _)
Find(s, sep, i) ==
    IF i + Len(sep) - 1 > Len(s) THEN 0
    ELSE IF SubSeq(s, i, i + Len(sep) - 1) = sep THEN i
    ELSE Find(s, sep, i + 1)

RECURSIVE Split(_, _)
Split(s, sep) ==
    LET k == Find(s, sep, 1)
    IN  IF k = 0 THEN <<s>>
        ELSE <<SubSeq(s, 1, k - 1)>> \o Split(SubSeq(s, k + Len(sep), Len(s)), sep)

IsSpace(c) == c \in {" ", "\n", "\t", "\r"}

RECURSIVE Trim(_)
Trim(s) ==
    IF s = "" THEN s
    ELSE IF IsSpace(Chr(s, 1)) THEN Trim(SubSeq(s, 2, Len(s)))
    ELSE IF IsSpace(Chr(s, Len(s))) THEN Trim(SubSeq(s, 1, Len(s) - 1))
    ELSE s

Last(q) == q[Len(q)]

RECURSIVE Join(_, _)
Join(ss, sep) ==
    IF ss = <<>> THEN ""
    ELSE IF Len(ss) = 1 THEN ss[1]
    ELSE ss[1] \o sep \o Join(Tail(ss), sep)

(***************************************************************************)
(* Addresses: IpAddr::V4 carries 4 octets, IpAddr::V6 8 segments.          *)
(***************************************************************************)
V4(a, b, c, d) == [v |-> "V4", b |-> <<a, b, c, d>>]

V6(s) == [v |-> "V6", b |-> s]

Ipv4ToString(b) == Join([i \in 1..4 |-> Radix(b[i], 10)], ".")

\* the first longest run of zero segments, as <<start, len>>: the scan of
\* the segments from position i on, with the current run and the longest so far
RECURSIVE ZeroScan(_, _, _, _)
ZeroScan(s, i, current, longest) ==
    IF i > Len(s) THEN longest
    ELSE IF s[i] # 0 THEN ZeroScan(s, i + 1, <<0, 0>>, longest)
    ELSE LET cur == <<IF current[2] = 0 THEN i ELSE current[1], current[2] + 1>>
         IN  ZeroScan(s, i + 1, cur, IF cur[2] > longest[2] THEN cur ELSE longest)

LongestZeroRun(s) == ZeroScan(s, 1, <<0, 0>>, <<0, 0>>)

HexGroups(s) == Join([i \in 1..Len(s) |-> Radix(s[i], 16)], ":")

Ipv6ToString(s) ==
    IF SubSeq(s, 1, 6) = <<0, 0, 0, 0, 0, 65535>>
    THEN "::ffff:" \o Ipv4ToString(<<s[7] \div 256, s[7] % 256, s[8] \div 256, s[8] % 256>>)
    ELSE LET z == LongestZeroRun(s)
         IN  IF z[2] > 1
             THEN HexGroups(SubSeq(s, 1, z[1] - 1)) \o "::"
                    \o HexGroups(SubSeq(s, z[1] + z[2], 8))
             ELSE HexGroups(s)

\* <IpAddr as Display>::fmt
IpAddr_fmt(ip) == IF ip.v = "V4" THEN Ipv4ToString(ip.b) ELSE Ipv6ToString(ip.b)

\* the addresses a Grabber of the model can observe
Addrs(ip_version) ==
    IF ip_version = "V4"
    THEN {V4(192, 0, 2, 1), V4(192, 0, 2, 10)}
    ELSE {V6(<<8193, 3512, 0, 0, 0, 0, 0, 1>>), V6(<<8193, 3512, 0, 0, 0, 0, 0, 2>>)}

AllAddrs == Addrs("V4") \cup Addrs("V6")

\* further addresses, for the Persistence operations called directly
MoreAddrs ==
    { V4(0, 0, 0, 0), V4(255, 255, 255, 255), V4(10, 20, 30, 40),
      V6(<<0, 0, 0, 0, 0, 0, 0, 0>>), V6(<<0, 0, 0, 0, 0, 0, 0, 1>>),
      V6(<<0, 0, 0, 0, 0, 65535, 49152, 522>>), V6(<<1, 0, 0, 2, 0, 0, 0, 3>>),
      V6(<<65152, 0, 0, 0, 2748, 0, 0, 4660>>), V6(<<1, 2, 3, 4, 5, 6, 7, 8>>),
      V6(<<8193, 3512, 1, 2, 3, 4, 0, 0>>) }

KnownAddrs == AllAddrs \cup MoreAddrs

\* the text of every address of the model, formatted once
IpText == [ip \in KnownAddrs |-> IpAddr_fmt(ip)]

to_string(ip) == IpText[ip]

\* one decimal octet: 1..3 digits, no leading zero, at most 255; -1 otherwise
Octet(s) ==
    LET n == from_str_radix(s, 10)
    IN  IF Len(s) \notin 1..3 \/ n < 0 \/ n > 255 \/ (Len(s) > 1 /\ Chr(s, 1) = "0")
        THEN -1 ELSE n

\* the 4 octets of a dotted quad, or <<>> when s is none
ParseIpv4(s) ==
    LET p == Split(s, ".")
    IN  IF Len(p) = 4 /\ \A i \in 1..4 : Octet(p[i]) >= 0
        THEN [i \in 1..4 |-> Octet(p[i])]
        ELSE <<>>

\* one hex group: 1..4 hex digits; -1 otherwise
Group(s) == IF Len(s) \in 1..4 THEN from_str_radix(s, 16) ELSE -1

\* the segments of the groups p, the last of which is the dotted quad q when
\* q is not <<>>
Segments(p, q) ==
    [i \in 1..(Len(p) - 1) |-> Group(p[i])]
        \o (IF q # <<>>
            THEN <<q[1] * 256 + q[2], q[3] * 256 + q[4]>>
            ELSE <<Group(Last(p))>>)

\* <<-1>> when one of the segments is no number
Checked(all) == IF \E i \in 1..Len(all) : all[i] < 0 THEN <<-1>> ELSE all

\* the segments written in s as groups separated by ":", the last of which may
\* be a dotted quad (two segments); <<-1>> when s is no such list
ParseGroups(s) ==
    IF s = "" THEN <<>>
    ELSE Checked(Segments(Split(s, ":"), ParseIpv4(Last(Split(s, ":")))))

\* a text without "::" holds all 8 segments
Uncompressed(g) == IF Len(g) = 8 /\ g # <<-1>> THEN g ELSE <<>>

\* "::" stands for the zero segments between the head h and the tail t
Compressed(h, t) ==
    IF h = <<-1>> \/ t = <<-1>> \/ Len(h) + Len(t) > 7 THEN <<>>
    ELSE h \o [i \in 1..(8 - Len(h) - Len(t)) |-> 0] \o t

\* the segments of s, whose first "::" is at position k (0: there is none)
SegmentsAround(s, k) ==
    IF k = 0 THEN Uncompressed(ParseGroups(s))
    ELSE Compressed(ParseGroups(SubSeq(s, 1, k - 1)),
                    ParseGroups(SubSeq(s, k + 2, Len(s))))

\* the 8 segments of a textual IPv6 address, or <<>> when s is none
ParseIpv6(s) == SegmentsAround(s, Find(s, "::", 1))

\* the address of the octets a or else of the segments b, or None
FromParsed(a, b) ==
    IF a # <<>> THEN [v |-> "V4", b |-> a]
    ELSE IF b # <<>> THEN V6(b)
    ELSE None

\* str::parse::<IpAddr>: the address, or None
parse_ip(s) == FromParsed(ParseIpv4(s), ParseIpv6(s))

(***************************************************************************)
(* Providers and their persistence keys.                                   *)
(***************************************************************************)
simple_name(ip_version) == IF ip_version = "V4" THEN "ipv4" ELSE "ipv6"

FreeDns_new(token, ip_version, poll_secs) ==
    [variant |-> "FreeDns", token |-> token, name |-> "", username |-> "",
     password |-> "", subdomain |-> "",
     file_name |-> "FreeDNS_" \o token \o "_" \o simple_name(ip_version),
     ip_version |-> ip_version, poll_secs |-> poll_secs]

DuckDns_new(token, name, ip_version, poll_secs) ==
    [variant |-> "DuckDns", token |-> token, name |-> name, username |-> "",
     password |-> "", subdomain |-> "",
     file_name |-> "DuckDNS_" \o token \o "_" \o name,
     ip_version |-> ip_version, poll_secs |-> poll_secs]

Ovh_new(username, password, subdomain, ip_version, poll_secs) ==
    [variant |-> "Ovh", token |-> "", name |-> "", username |-> username,
     password |-> password, subdomain |-> subdomain,
     file_name |-> "OVH_" \o username \o "_" \o subdomain \o "_"
                     \o simple_name(ip_version),
     ip_version |-> ip_version, poll_secs |-> poll_secs]

file_names(providers) == [i \in 1..Len(providers) |-> providers[i].file_name]

Range(f) == {f[x] : x \in DOMAIN f}

(***************************************************************************)
(* parse_dns_tuples: the configuration text, BATCH,BATCH,...               *)
(***************************************************************************)
RECURSIVE trim_start_matches(_, _)
trim_start_matches(s, c) ==
    IF s # "" /\ Chr(s, 1) = c THEN trim_start_matches(SubSeq(s, 2, Len(s)), c) ELSE s

RECURSIVE trim_end_matches(_, _)
trim_end_matches(s, c) ==
    IF s # "" /\ Chr(s, Len(s)) = c THEN trim_end_matches(SubSeq(s, 1, Len(s) - 1), c) ELSE s

\* the parts of one batch: s.trim().trim_start_matches("(").trim_end_matches(")").split(";")
Parts(s) == Split(trim_end_matches(trim_start_matches(Trim(s), "("), ")"), ";")

\* TryFrom<&str> for IpVersion
try_into(s) ==
    IF s = "ipv4" THEN [ok |-> TRUE, v |-> "V4", err |-> ""]
    ELSE IF s = "ipv6" THEN [ok |-> TRUE, v |-> "V6", err |-> ""]
    ELSE [ok |-> FALSE, v |-> "", err |-> "Invalid VERSION found in batch: " \o s]

\* the digits of a number text: one leading "+" is allowed
Unsigned(s) == IF Len(s) > 1 /\ Chr(s, 1) = "+" THEN SubSeq(s, 2, Len(s)) ELSE s

\* str::parse::<u64>, for texts whose value fits
parse_u64(s) ==
    IF s = "" THEN [ok |-> FALSE, n |-> 0, err |-> "ParseIntError { kind: Empty }"]
    ELSE IF from_str_radix(Unsigned(s), 10) < 0
    THEN [ok |-> FALSE, n |-> 0, err |-> "ParseIntError { kind: InvalidDigit }"]
    ELSE [ok |-> TRUE, n |-> from_str_radix(Unsigned(s), 10), err |-> ""]

NoProvider ==
    [variant |-> "", token |-> "", name |-> "", username |-> "", password |-> "",
     subdomain |-> "", file_name |-> "", ip_version |-> "", poll_secs |-> 0]

BatchErr(msg) == [ok |-> FALSE, err |-> msg, provider |-> NoProvider]

BatchOk(provider) == [ok |-> TRUE, err |-> "", provider |-> provider]

\* the VERSION and POLL_SECS fields at parts v and v + 1: the error of the
\* first that is missing or unparseable, or ok
VersionAndPoll(p, v) ==
    IF Len(p) < v THEN BatchErr("No VERSION found in batch")
    ELSE IF ~try_into(p[v]).ok THEN BatchErr(try_into(p[v]).err)
    ELSE IF Len(p) < v + 1 THEN BatchErr("No POLL_SECS found in batch")
    ELSE IF ~parse_u64(p[v + 1]).ok
    THEN BatchErr("Couldn't parse POLL_SECS error: " \o parse_u64(p[v + 1]).err)
    ELSE BatchOk(NoProvider)

ParseFD(p) ==
    IF Len(p) < 2 THEN BatchErr("No TOKEN found in batch")
    ELSE IF ~VersionAndPoll(p, 3).ok THEN VersionAndPoll(p, 3)
    ELSE BatchOk(FreeDns_new(p[2], try_into(p[3]).v, parse_u64(p[4]).n))

ParseDD(p) ==
    IF Len(p) < 2 THEN BatchErr("No TOKEN found in batch")
    ELSE IF ~VersionAndPoll(p, 3).ok THEN VersionAndPoll(p, 3)
    ELSE IF Len(p) < 5 THEN BatchErr("No NAME found in batch")
    ELSE BatchOk(DuckDns_new(p[2], p[5], try_into(p[3]).v, parse_u64(p[4]).n))

ParseOVH(p) ==
    IF Len(p) < 2 THEN BatchErr("No USERNAME found in batch")
    ELSE IF Len(p) < 3 THEN BatchErr("No PASSWORD found in batch")
    ELSE IF Len(p) < 4 THEN BatchErr("No SUBDOMAIN found in batch")
    ELSE IF ~VersionAndPoll(p, 5).ok THEN VersionAndPoll(p, 5)
    ELSE BatchOk(Ovh_new(p[2], p[3], p[4], try_into(p[5]).v, parse_u64(p[6]).n))

\* the match on parts.next(); split yields at least one part, also for ""
ParseBatch(p) ==
    IF p = <<>> THEN BatchErr("Empty Batch found")
    ELSE IF p[1] = "FD" THEN ParseFD(p)
    ELSE IF p[1] = "DD" THEN ParseDD(p)
    ELSE IF p[1] = "OVH" THEN ParseOVH(p)
    ELSE BatchErr("Invalid Dynamic Dns Type found: " \o p[1])

\* mutant: the malformed batches are skipped and the others are returned
Collect_Partial(rs) ==
    LET good(r) == r.ok
        kept == SelectSeq(rs, good)
    IN  [ok |-> TRUE, err |-> "", providers |-> [i \in 1..Len(kept) |-> kept[i].provider]]

\* collect() into a Result: the first error in batch order, or every provider
Collect(rs) ==
    IF \A i \in 1..Len(rs) : rs[i].ok
    THEN [ok |-> TRUE, err |-> "", providers |-> [i \in 1..Len(rs) |-> rs[i].provider]]
    ELSE [ok |-> FALSE, providers |-> <<>>,
          err |-> rs[CHOOSE i \in 1..Len(rs) :
                        ~rs[i].ok /\ \A j \in 1..(i - 1) : rs[j].ok].err]

BatchResults(bs) == [i \in 1..Len(bs) |-> ParseBatch(Parts(bs[i]))]

parse_dns_tuples(text) == Collect(BatchResults(Split(text, ",")))

(***************************************************************************)
(* IpGrabber::get_stable_global_ipv6: the reading of /proc/net/if_inet6.   *)
(* In the texts of the table "#" stands for one character that takes two   *)
(* bytes in UTF-8; every other character takes one.                        *)
(***************************************************************************)
FILE_PATH == "/proc/net/if_inet6"

len_utf8(c) == IF c = "#" THEN 2 ELSE 1

\* str::len: the length in bytes
RECURSIVE ByteLen(_)
ByteLen(s) == IF s = "" THEN 0 ELSE len_utf8(Chr(s, 1)) + ByteLen(SubSeq(s, 2, Len(s)))

\* the number of characters that end at byte offset b, -1 when b falls inside
\* a character or after the text: the scan has passed k characters, `at` bytes
RECURSIVE CharScan(_, _, _, _)
CharScan(s, b, k, at) ==
    IF at = b THEN k
    ELSE IF at > b \/ k = Len(s) THEN -1
    ELSE CharScan(s, b, k + 1, at + len_utf8(Chr(s, k + 1)))

CharsBefore(s, b) == CharScan(s, b, 0, 0)

is_char_boundary(s, b) == CharsBefore(s, b) >= 0

\* &s[a..b], for offsets that are character boundaries
Slice(s, a, b) == SubSeq(s, CharsBefore(s, a) + 1, CharsBefore(s, b))

RECURSIVE trim_start(_)
trim_start(s) == IF s # "" /\ IsSpace(Chr(s, 1)) THEN trim_start(SubSeq(s, 2, Len(s))) ELSE s

\* the last position of the word that starts s
RECURSIVE WordEnd(_, _)
WordEnd(s, i) == IF i = Len(s) \/ IsSpace(Chr(s, i + 1)) THEN i ELSE WordEnd(s, i + 1)

RECURSIVE split_whitespace(_)
WordsOf(s) ==
    IF s = "" THEN <<>>
    ELSE <<SubSeq(s, 1, WordEnd(s, 1))>> \o split_whitespace(SubSeq(s, WordEnd(s, 1) + 1, Len(s)))

split_whitespace(s) == WordsOf(trim_start(s))

\* BufReader::lines: the text cut at "\n", without a line after the last "\n"
DropLastEmpty(ls) == IF ls # <<>> /\ Last(ls) = "" THEN SubSeq(ls, 1, Len(ls) - 1) ELSE ls

Lines(text) == DropLastEmpty(Split(text, "\n"))

\* u8::from_str_radix(s, 16).unwrap_or(0xFF)
u8_or_FF(s) ==
    IF from_str_radix(Unsigned(s), 16) < 0 \/ from_str_radix(Unsigned(s), 16) > 255
    THEN 255 ELSE from_str_radix(Unsigned(s), 16)

\* the bit `bit` (a power of two) of n is set
BitSet(n, bit) == (n \div bit) % 2 = 1

\* segment i (0..7) of the address text: its value, Panic when the slice
\* hex[i * 4..(i + 1) * 4] does not lie on character boundaries, InvalidStr
\* when u16::from_str_radix fails
Panic == -2

InvalidStr == -1

Segment(hex, i) ==
    IF ~is_char_boundary(hex, i * 4) \/ ~is_char_boundary(hex, (i + 1) * 4) THEN Panic
    ELSE IF from_str_radix(Unsigned(Slice(hex, i * 4, (i + 1) * 4)), 16) < 0 THEN InvalidStr
    ELSE from_str_radix(Unsigned(Slice(hex, i * 4, (i + 1) * 4)), 16)

\* the outcome of the loop over the segments: the first that is no number, or Ok
SegmentsResult(segs) ==
    IF \A i \in 1..8 : segs[i] >= 0
    THEN [res |-> "Ok", ip |-> V6(segs)]
    ELSE [res |-> IF segs[CHOOSE i \in 1..8 : segs[i] < 0 /\ \A j \in 1..(i - 1) : segs[j] >= 0]
                       = Panic
                  THEN "panic" ELSE "InvalidStr",
          ip |-> None]

\* IpGrabber::parse_ipv6
parse_ipv6(hex) ==
    IF ByteLen(hex) # 32 THEN [res |-> "LenMismatch", ip |-> None]
    ELSE SegmentsResult([i \in 1..8 |-> Segment(hex, i - 1)])

\* the line passes every `continue` of the loop and reaches the return
Returns(parts, iface) ==
    /\ Len(parts) >= 6
    /\ parts[6] = iface
    /\ u8_or_FF(parts[4]) = 0
    /\ ~BitSet(u8_or_FF(parts[5]), 1)
    /\ ~BitSet(u8_or_FF(parts[5]), 32)

\* the while loop over the lines
RECURSIVE Scan(_, _)
Scan(ls, iface) ==
    IF ls = <<>> THEN [res |-> "NoneMatched", ip |-> None]
    ELSE IF Returns(split_whitespace(Head(ls)), iface)
    THEN parse_ipv6(split_whitespace(Head(ls))[1])
    ELSE Scan(Tail(ls), iface)

get_stable_global_ipv6(iface, fs) ==
    IF FILE_PATH \notin DOMAIN fs \/ fs[FILE_PATH] = NoFile
    THEN [res |-> "OpenFileError", ip |-> None]
    ELSE Scan(Lines(fs[FILE_PATH]), iface)

(***************************************************************************)
(* Persistence.                                                            *)
(***************************************************************************)
\* PathBuf::from(name): the path is the name, relative to the working directory
PathBuf_from(name) == name

\* OpenOptions write(true).create(true).truncate(false): an absent file is
\* created empty, an existing one keeps its content
OpenCreate(fs, path) ==
    IF path \in DOMAIN fs /\ fs[path] # NoFile THEN fs
    ELSE [p \in DOMAIN fs \cup {path} |-> IF p = path THEN "" ELSE fs[p]]

RECURSIVE OpenAll(_, _)
OpenAll(fs, names) ==
    IF names = <<>> THEN fs
    ELSE OpenAll(OpenCreate(fs, PathBuf_from(Head(names))), Tail(names))

\* mutant: a file that cannot be opened is left out of the store
Persistence_new_Partial(names, fs, failing) ==
    IF failing \in 1..Len(names) /\ Len(names) > 1
    THEN [ok |-> TRUE, err |-> "", failed |-> names[failing],
          file_paths |-> [i \in 1..(Len(names) - 1) |->
                            PathBuf_from(names[IF i < failing THEN i ELSE i + 1])],
          files |-> OpenAll(fs, SubSeq(names, 1, failing - 1)
                                  \o SubSeq(names, failing + 1, Len(names)))]
    ELSE IF names = <<>> \/ failing \in 1..Len(names)
    THEN [ok |-> FALSE, err |-> "NoFileNames", failed |-> "", file_paths |-> <<>>, files |-> fs]
    ELSE [ok |-> TRUE, err |-> "", failed |-> "",
          file_paths |-> [i \in 1..Len(names) |-> PathBuf_from(names[i])],
          files |-> OpenAll(fs, names)]

\* Persistence::new where the first `failing - 1` opens succeed and open number
\* `failing` fails (failing = 0: every open succeeds); `failed` names the file
\* whose open failed
Persistence_new(names, fs, failing) ==
    IF failing \in 1..Len(names)
    THEN [ok |-> FALSE, err |-> "CannotUseFile", failed |-> names[failing],
          file_paths |-> <<>>,
          files |-> OpenAll(fs, SubSeq(names, 1, failing - 1))]
    ELSE IF names = <<>>
    THEN [ok |-> FALSE, err |-> "NoFileNames", failed |-> "", file_paths |-> <<>>, files |-> fs]
    ELSE [ok |-> TRUE, err |-> "", failed |-> "",
          file_paths |-> [i \in 1..Len(names) |-> PathBuf_from(names[i])],
          files |-> OpenAll(fs, names)]

\* the first path of the store that ends with file_name, NoPath when there is none
match_file_name(paths, file_name) ==
    LET hits == {i \in 1..Len(paths) : EndsWith(paths[i], file_name)}
    IN  IF hits = {} THEN NoPath
        ELSE paths[CHOOSE i \in hits : \A j \in hits : i <= j]

\* what a write of `text` leaves in the file, by outcome of tokio::fs::write
WriteOutcomes == {"ok", "create_failed", "write_failed"}

\* mutant: the file is opened for appending, the text is added to what it holds
Written_Append(old, text, io) ==
    CASE io = "ok" -> old \o text
      [] io = "create_failed" -> old
      [] io = "write_failed" -> ""

Written(old, text, io) ==
    CASE io = "ok" -> text
      [] io = "create_failed" -> old
      [] io = "write_failed" -> ""

replace_ip(paths, fs, ip, file_name, io) ==
    LET fp == match_file_name(paths, file_name)
    IN  IF fp = NoPath
        THEN [kind |-> "replace", key |-> file_name, ip |-> ip, path |-> NoPath,
              res |-> "NoFileNames", files |-> fs]
        ELSE [kind |-> "replace", key |-> file_name, ip |-> ip, path |-> fp,
              res |-> IF io = "ok" THEN "Ok" ELSE "Io",
              files |-> [fs EXCEPT ![fp] = Written(fs[fp], to_string(ip), io)]]

load_ip(paths, fs, file_name) ==
    LET fp == match_file_name(paths, file_name)
    IN  IF fp = NoPath
        THEN [kind |-> "load", key |-> file_name, ip |-> None, path |-> NoPath,
              res |-> "NoFileNames", files |-> fs]
        ELSE IF fs[fp] = NoFile
        THEN [kind |-> "load", key |-> file_name, ip |-> None, path |-> fp,
              res |-> "Io", files |-> fs]
        ELSE LET ip == parse_ip(Trim(fs[fp]))
             IN  [kind |-> "load", key |-> file_name, ip |-> ip, path |-> fp,
                  res |-> IF ip = None THEN "Parse" ELSE "Ok", files |-> fs]

NoOp == [kind |-> "none", key |-> "", ip |-> None, path |-> NoPath, res |-> "", files |-> <<>>]

OpOf(r) == [kind |-> r.kind, key |-> r.key, ip |-> r.ip, path |-> r.path, res |-> r.res]

(***************************************************************************)
(* The orchestrator: configurations and sample addresses.                  *)
(***************************************************************************)
ChannelCapacity == 10000

Configs ==
    { <<>>,
      <<FreeDns_new("t", "V4", 60)>>,
      <<FreeDns_new("t", "V4", 0)>>,
      <<DuckDns_new("t", "n", "V4", 60), DuckDns_new("t", "n", "V6", 60)>>,
      <<FreeDns_new("OVH_u_s", "V4", 60), Ovh_new("u", "p", "s", "V4", 60)>>,
      <<Ovh_new("u", "p", "s", "V6", 60), FreeDns_new("t", "V4", 0)>> }

Pipes == 1..Len(cfg)

Keys == Range(file_names(cfg))

\* what a file holds before the process starts: nothing, or what an earlier
\* run wrote
PriorContents == {NoFile, to_string(V4(192, 0, 2, 1))}

RECURSIVE Sum(_)
Sum(f) == IF f = <<>> THEN 0 ELSE Head(f) + Sum(Tail(f))

\* no get_updated() result is held; in the history, a call that gave no address
NoPoll == [ok |-> FALSE, ip |-> None]

\* the number of get_updated() calls of all Grabbers so far
TotalPolls == Sum([i \in 1..Len(polls) |-> Len(polls[i])])

Idle(c) ==
    /\ to_parse = ""
    /\ cfg = c
    /\ file_paths = <<>>
    /\ gpc = [i \in 1..Len(c) |-> "none"]
    /\ last_ip = [i \in 1..Len(c) |-> None]
    /\ polled = [i \in 1..Len(c) |-> NoPoll]
    /\ polls = [i \in 1..Len(c) |-> <<>>]
    /\ gch = [i \in 1..Len(c) |-> <<>>]
    /\ ppc = [i \in 1..Len(c) |-> "none"]
    /\ pip = [i \in 1..Len(c) |-> None]
    /\ shared = <<>>
    /\ inflight = <<>>
    /\ wpc = "none"
    /\ emitted = [i \in 1..Len(c) |-> <<>>]
    /\ updates = [i \in 1..Len(c) |-> <<>>]
    /\ replaced = [i \in 1..Len(c) |-> <<>>]
    /\ op = OpOf(NoOp)

Init ==
    /\ \E c \in Configs : Idle(c)
    /\ rpc = "new"
    /\ \E prior \in PriorContents : files = [k \in Range(file_names(cfg)) |-> prior]

grabberVars == <<gpc, last_ip, polled, polls, emitted>>
pipeVars == <<ppc, pip, updates>>
writerVars == <<inflight, wpc, replaced, op>>
storeVars == <<file_paths, files>>

(***************************************************************************)
(* Runner::new and the start of Runner::run.                               *)
(***************************************************************************)
\* mutant: the cache starts with the address an earlier run stored
IpGrabber_new_Seeded(iface, ip_version, poll_secs) ==
    [iface |-> iface, ip_version |-> ip_version, poll_secs |-> poll_secs,
     last_ip |-> IF ip_version = "V4" THEN V4(192, 0, 2, 1) ELSE None]

\* IpGrabber::new: the cache starts empty
IpGrabber_new(iface, ip_version, poll_secs) ==
    [iface |-> iface, ip_version |-> ip_version, poll_secs |-> poll_secs, last_ip |-> None]

RunnerNew(failing) ==
    /\ rpc = "new"
    /\ LET pers == Persistence_new(file_names(cfg), files, failing)
       IN  /\ files' = pers.files
           /\ file_paths' = pers.file_paths
           /\ op' = [kind |-> "new", key |-> pers.failed, ip |-> None, path |-> NoPath,
                     res |-> IF pers.ok THEN "Ok" ELSE pers.err]
           /\ IF pers.ok
              THEN /\ rpc' = "ready"
                   /\ gpc' = [i \in Pipes |-> "built"]
                   /\ last_ip' = [i \in Pipes |->
                         IpGrabber_new("eth0", cfg[i].ip_version, cfg[i].poll_secs).last_ip]
              ELSE /\ rpc' = "failed"
                   /\ UNCHANGED <<gpc, last_ip>>
    /\ UNCHANGED <<to_parse, cfg, polled, polls, gch, emitted, pipeVars, shared, inflight, wpc, replaced>>

RunnerRun ==
    /\ rpc = "ready"
    /\ rpc' = "running"
    /\ gpc' = [i \in Pipes |-> "start"]
    /\ ppc' = [i \in Pipes |-> "recv"]
    /\ wpc' = "recv"
    /\ UNCHANGED <<to_parse, cfg, storeVars, last_ip, polled, polls, gch, emitted, pip, updates,
                   shared, inflight, replaced, op>>

(***************************************************************************)
(* IpGrabber::run.                                                         *)
(***************************************************************************)
\* tokio::time::interval panics when its period is zero
IntervalPanics(secs) == secs = 0

GrabberStart(i) ==
    /\ gpc[i] = "start"
    /\ gpc' = [gpc EXCEPT ![i] =
          IF IntervalPanics(cfg[i].poll_secs) \/ IntervalPanics(cfg[i].poll_secs \div 10)
          THEN "panicked" ELSE "poll"]
    /\ UNCHANGED <<to_parse, cfg, rpc, storeVars, last_ip, polled, polls, gch, emitted, pipeVars,
                   shared, writerVars>>

\* mutant: the address is sent without comparing it with the cache
GrabberPollOk_NoDedup(i, current_ip) ==
    /\ gpc[i] = "poll"
    /\ TotalPolls < MaxPolls
    /\ polls' = [polls EXCEPT ![i] = Append(@, [ok |-> TRUE, ip |-> current_ip])]
    /\ polled' = [polled EXCEPT ![i] = [ok |-> TRUE, ip |-> current_ip]]
    /\ last_ip' = [last_ip EXCEPT ![i] = current_ip]
    /\ gpc' = [gpc EXCEPT ![i] = "send"]
    /\ UNCHANGED <<to_parse, cfg, rpc, storeVars, gch, emitted, pipeVars, shared, writerVars>>

\* get_updated() returned Ok(current_ip)
GrabberPollOk(i, current_ip) ==
    /\ gpc[i] = "poll"
    /\ TotalPolls < MaxPolls
    /\ polls' = [polls EXCEPT ![i] = Append(@, [ok |-> TRUE, ip |-> current_ip])]
    /\ polled' = [polled EXCEPT ![i] = [ok |-> TRUE, ip |-> current_ip]]
    /\ IF last_ip[i] # None /\ current_ip = last_ip[i]
       THEN /\ gpc' = [gpc EXCEPT ![i] = "tick"]
            /\ UNCHANGED last_ip
       ELSE /\ last_ip' = [last_ip EXCEPT ![i] = current_ip]
            /\ gpc' = [gpc EXCEPT ![i] = "send"]
    /\ UNCHANGED <<to_parse, cfg, rpc, storeVars, gch, emitted, pipeVars, shared, writerVars>>

\* mutant: a failed poll clears the cache
GrabberPollErr_Forget(i) ==
    /\ gpc[i] = "poll"
    /\ TotalPolls < MaxPolls
    /\ polls' = [polls EXCEPT ![i] = Append(@, NoPoll)]
    /\ polled' = [polled EXCEPT ![i] = [ok |-> FALSE, ip |-> None]]
    /\ last_ip' = [last_ip EXCEPT ![i] = None]
    /\ gpc' = [gpc EXCEPT ![i] = "errtick"]
    /\ UNCHANGED <<to_parse, cfg, rpc, storeVars, gch, emitted, pipeVars, shared, writerVars>>

\* get_updated() returned Err
GrabberPollErr(i) ==
    /\ gpc[i] = "poll"
    /\ TotalPolls < MaxPolls
    /\ polls' = [polls EXCEPT ![i] = Append(@, NoPoll)]
    /\ polled' = [polled EXCEPT ![i] = [ok |-> FALSE, ip |-> None]]
    /\ gpc' = [gpc EXCEPT ![i] = "errtick"]
    /\ UNCHANGED <<to_parse, cfg, rpc, storeVars, last_ip, gch, emitted, pipeVars, shared, writerVars>>

\* get_updated() panicked: parse_ipv6 slices the address field of the table
\* off a character boundary (IPv6 only)
GrabberPollPanic(i) ==
    /\ gpc[i] = "poll"
    /\ cfg[i].ip_version = "V6"
    /\ TotalPolls < MaxPolls
    /\ polls' = [polls EXCEPT ![i] = Append(@, NoPoll)]
    /\ polled' = [polled EXCEPT ![i] = NoPoll]
    /\ gpc' = [gpc EXCEPT ![i] = "panicked"]
    /\ UNCHANGED <<to_parse, cfg, rpc, storeVars, last_ip, gch, emitted, pipeVars, shared, writerVars>>

\* sender.send(current_ip).await
GrabberSend(i) ==
    /\ gpc[i] = "send"
    /\ IF ppc[i] = "done"
       THEN /\ gpc' = [gpc EXCEPT ![i] = "stopped"]
            /\ UNCHANGED <<gch, emitted>>
       ELSE /\ Len(gch[i]) < ChannelCapacity
            /\ gch' = [gch EXCEPT ![i] = Append(@, polled[i].ip)]
            /\ emitted' = [emitted EXCEPT ![i] = Append(@, polled[i].ip)]
            /\ gpc' = [gpc EXCEPT ![i] = "poll"]
    /\ polled' = [polled EXCEPT ![i] = NoPoll]
    /\ UNCHANGED <<to_parse, cfg, rpc, storeVars, last_ip, polls, pipeVars, shared, writerVars>>

\* interval.tick().await; continue
GrabberTick(i) ==
    /\ gpc[i] = "tick"
    /\ gpc' = [gpc EXCEPT ![i] = "poll"]
    /\ polled' = [polled EXCEPT ![i] = NoPoll]
    /\ UNCHANGED <<to_parse, cfg, rpc, storeVars, last_ip, polls, gch, emitted, pipeVars,
                   shared, writerVars>>

\* err_interval.tick().await
GrabberErrTick(i) ==
    /\ gpc[i] = "errtick"
    /\ gpc' = [gpc EXCEPT ![i] = "poll"]
    /\ polled' = [polled EXCEPT ![i] = NoPoll]
    /\ UNCHANGED <<to_parse, cfg, rpc, storeVars, last_ip, polls, gch, emitted, pipeVars,
                   shared, writerVars>>

GrabberEnded(i) == gpc[i] \in {"stopped", "panicked"}

(***************************************************************************)
(* Runner::run: the update loop of one pipeline.                           *)
(***************************************************************************)
\* mutant: the pipelines are awaited one after the other instead of being
\* spawned, so a pipeline takes its next address only while no other is in update
PipeRecv_Sequential(i) ==
    /\ ppc[i] = "recv"
    /\ gch[i] # <<>>
    /\ \A j \in Pipes \ {i} : ppc[j] # "update"
    /\ pip' = [pip EXCEPT ![i] = Head(gch[i])]
    /\ gch' = [gch EXCEPT ![i] = Tail(@)]
    /\ ppc' = [ppc EXCEPT ![i] = "update"]
    /\ updates' = [updates EXCEPT ![i] = Append(@, [ip |-> Head(gch[i]), res |-> "pending"])]
    /\ UNCHANGED <<to_parse, cfg, rpc, storeVars, grabberVars, shared, writerVars>>

\* mutant: the newest address of the private channel is taken first
PipeRecv_Newest(i) ==
    /\ ppc[i] = "recv"
    /\ gch[i] # <<>>
    /\ pip' = [pip EXCEPT ![i] = Last(gch[i])]
    /\ gch' = [gch EXCEPT ![i] = SubSeq(@, 1, Len(@) - 1)]
    /\ ppc' = [ppc EXCEPT ![i] = "update"]
    /\ updates' = [updates EXCEPT ![i] = Append(@, [ip |-> Last(gch[i]), res |-> "pending"])]
    /\ UNCHANGED <<to_parse, cfg, rpc, storeVars, grabberVars, shared, writerVars>>

\* gr.recv().await returned Some(ip); dns.update(ip) starts
PipeRecv(i) ==
    /\ ppc[i] = "recv"
    /\ gch[i] # <<>>
    /\ pip' = [pip EXCEPT ![i] = Head(gch[i])]
    /\ gch' = [gch EXCEPT ![i] = Tail(@)]
    /\ ppc' = [ppc EXCEPT ![i] = "update"]
    /\ updates' = [updates EXCEPT ![i] = Append(@, [ip |-> Head(gch[i]), res |-> "pending"])]
    /\ UNCHANGED <<to_parse, cfg, rpc, storeVars, grabberVars, shared, writerVars>>

\* gr.recv().await returned None: every sender of the private channel is gone
PipeClosed(i) ==
    /\ ppc[i] = "recv"
    /\ gch[i] = <<>>
    /\ GrabberEnded(i)
    /\ ppc' = [ppc EXCEPT ![i] = "done"]
    /\ UNCHANGED <<to_parse, cfg, rpc, storeVars, grabberVars, gch, pip, updates, shared, writerVars>>

\* dns.update(ip).await returned Ok(())
UpdateOk(i) ==
    /\ ppc[i] = "update"
    /\ ppc' = [ppc EXCEPT ![i] = "forward"]
    /\ updates' = [updates EXCEPT ![i][Len(updates[i])].res = "ok"]
    /\ UNCHANGED <<to_parse, cfg, rpc, storeVars, grabberVars, gch, pip, shared, writerVars>>

\* mutant: a failed update is tried again at once
UpdateErr_Retry(i) ==
    /\ ppc[i] = "update"
    /\ Len(updates[i]) < MaxPolls
    /\ updates' = [updates EXCEPT ![i] =
          Append([@ EXCEPT ![Len(@)].res = "err"], [ip |-> pip[i], res |-> "pending"])]
    /\ UNCHANGED <<to_parse, cfg, rpc, storeVars, grabberVars, gch, ppc, pip, shared, writerVars>>

\* mutant: the address is forwarded whatever update returned
UpdateErr_Forward(i) ==
    /\ ppc[i] = "update"
    /\ ppc' = [ppc EXCEPT ![i] = "forward"]
    /\ updates' = [updates EXCEPT ![i][Len(updates[i])].res = "err"]
    /\ UNCHANGED <<to_parse, cfg, rpc, storeVars, grabberVars, gch, pip, shared, writerVars>>

\* dns.update(ip).await returned Err(e)
UpdateErr(i) ==
    /\ ppc[i] = "update"
    /\ ppc' = [ppc EXCEPT ![i] = "recv"]
    /\ pip' = [pip EXCEPT ![i] = None]
    /\ updates' = [updates EXCEPT ![i][Len(updates[i])].res = "err"]
    /\ UNCHANGED <<to_parse, cfg, rpc, storeVars, grabberVars, gch, shared, writerVars>>

\* mutant: try_send semantics, the message is dropped while the writer is busy
PipeForward_Lossy(i) ==
    /\ ppc[i] = "forward"
    /\ IF wpc # "recv"
       THEN UNCHANGED shared
       ELSE /\ Len(shared) < ChannelCapacity
            /\ shared' = Append(shared,
                  [ip |-> pip[i], file_name |-> cfg[i].file_name, from |-> i])
    /\ ppc' = [ppc EXCEPT ![i] = "recv"]
    /\ pip' = [pip EXCEPT ![i] = None]
    /\ UNCHANGED <<to_parse, cfg, rpc, storeVars, grabberVars, gch, updates, writerVars>>

\* sender.send((ip, file_name.clone())).await; `from` is a history field
PipeForward(i) ==
    /\ ppc[i] = "forward"
    /\ IF wpc = "returned"
       THEN UNCHANGED shared
       ELSE /\ Len(shared) < ChannelCapacity
            /\ shared' = Append(shared,
                  [ip |-> pip[i], file_name |-> cfg[i].file_name, from |-> i])
    /\ ppc' = [ppc EXCEPT ![i] = "recv"]
    /\ pip' = [pip EXCEPT ![i] = None]
    /\ UNCHANGED <<to_parse, cfg, rpc, storeVars, grabberVars, gch, updates, writerVars>>

(***************************************************************************)
(* Runner::run: the writer loop.                                           *)
(***************************************************************************)
\* the replace_ip call made for message m, whose result is not known yet;
\* `replaced` is the history of these calls
Call(m) == [ip |-> m.ip, file_name |-> m.file_name, from |-> m.from, res |-> "pending"]

\* the history once the call in progress for message m returned res
Returned(h, m, res) == [h EXCEPT ![m.from][Len(h[m.from])].res = res]

\* mutant: each write is spawned, the next message is taken while one is written
WriterRecv_Spawned ==
    /\ wpc \in {"recv", "write"}
    /\ shared # <<>>
    /\ inflight' = Append(inflight, Head(shared))
    /\ replaced' = [replaced EXCEPT ![Head(shared).from] = Append(@, Call(Head(shared)))]
    /\ shared' = Tail(shared)
    /\ wpc' = "write"
    /\ UNCHANGED <<to_parse, cfg, rpc, storeVars, grabberVars, gch, pipeVars, op>>

\* receiver.recv().await returned Some((ip, file_name)); replace_ip starts
WriterRecv ==
    /\ wpc = "recv"
    /\ shared # <<>>
    /\ inflight' = Append(inflight, Head(shared))
    /\ replaced' = [replaced EXCEPT ![Head(shared).from] = Append(@, Call(Head(shared)))]
    /\ shared' = Tail(shared)
    /\ wpc' = "write"
    /\ UNCHANGED <<to_parse, cfg, rpc, storeVars, grabberVars, gch, pipeVars, op>>

\* mutant: the error of replace_ip is returned with `?`, which ends the writer
WriterWrite_Fatal(io) ==
    /\ wpc = "write"
    /\ LET m == Head(inflight)
           r == replace_ip(file_paths, files, m.ip, m.file_name, io)
       IN  /\ files' = r.files
           /\ replaced' = Returned(replaced, m, r.res)
           /\ wpc' = IF r.res = "Ok" THEN "recv" ELSE "returned"
           /\ rpc' = IF r.res = "Ok" THEN rpc ELSE "returned"
    /\ inflight' = Tail(inflight)
    /\ UNCHANGED <<to_parse, cfg, file_paths, grabberVars, gch, pipeVars, shared, op>>

\* pers.replace_ip(&ip, &file_name).await returned; an Err is logged
WriterWrite(io) ==
    /\ wpc = "write"
    /\ LET m == Head(inflight)
           r == replace_ip(file_paths, files, m.ip, m.file_name, io)
       IN  /\ files' = r.files
           /\ replaced' = Returned(replaced, m, r.res)
    /\ inflight' = Tail(inflight)
    /\ wpc' = "recv"
    /\ UNCHANGED <<to_parse, cfg, rpc, file_paths, grabberVars, gch, pipeVars, shared, op>>

\* mutant: the writer returns as soon as the shared channel is empty
WriterReturn_Early ==
    /\ wpc = "recv"
    /\ shared = <<>>
    /\ wpc' = "returned"
    /\ rpc' = "returned"
    /\ UNCHANGED <<to_parse, cfg, storeVars, grabberVars, gch, pipeVars, shared, inflight, replaced, op>>

\* receiver.recv().await returned None: run returns
WriterReturn ==
    /\ wpc = "recv"
    /\ shared = <<>>
    /\ \A i \in Pipes : ppc[i] = "done"
    /\ wpc' = "returned"
    /\ rpc' = "returned"
    /\ UNCHANGED <<to_parse, cfg, storeVars, grabberVars, gch, pipeVars, shared, inflight, replaced, op>>

Next ==
    \/ \E failing \in 0..Len(cfg) : RunnerNew(failing)
    \/ RunnerRun
    \/ \E i \in Pipes : GrabberStart(i)
    \/ \E i \in Pipes : \E a \in Addrs(cfg[i].ip_version) : GrabberPollOk(i, a)
    \/ \E i \in Pipes : GrabberPollErr(i)
    \/ \E i \in Pipes : GrabberPollPanic(i)
    \/ \E i \in Pipes : GrabberSend(i)
    \/ \E i \in Pipes : GrabberTick(i)
    \/ \E i \in Pipes : GrabberErrTick(i)
    \/ \E i \in Pipes : PipeRecv(i)
    \/ \E i \in Pipes : PipeClosed(i)
    \/ \E i \in Pipes : UpdateOk(i)
    \/ \E i \in Pipes : UpdateErr(i)
    \/ \E i \in Pipes : PipeForward(i)
    \/ WriterRecv
    \/ \E io \in WriteOutcomes : WriterWrite(io)
    \/ WriterReturn

Spec == Init /\ [][Next]_vars

(***************************************************************************)
(* Scheduling: the runtime polls every ready task, a channel receive ends  *)
(* once a message is there, a send ends while the channel has room, and a  *)
(* file write returns. Nothing makes an HTTP call return, so the polls of  *)
(* a Grabber and the return of update() are not fair steps.                *)
(***************************************************************************)
Fairness ==
    /\ \A i \in 1..MaxProviders : WF_vars(i \in Pipes /\ PipeRecv(i))
    /\ \A i \in 1..MaxProviders : WF_vars(i \in Pipes /\ PipeForward(i))
    /\ WF_vars(WriterRecv)
    /\ WF_vars(\E io \in WriteOutcomes : WriterWrite(io))

\* the configurations of the fair runs: every task ends at once; two pipelines
\* run; one of two pipelines ends at once
FairConfigs ==
    { <<FreeDns_new("t", "V4", 0)>>,
      <<DuckDns_new("t", "n", "V4", 60), DuckDns_new("t", "n", "V6", 60)>>,
      <<Ovh_new("u", "p", "s", "V6", 60), FreeDns_new("t", "V4", 0)>> }

FairInit ==
    /\ \E c \in FairConfigs : Idle(c)
    /\ rpc = "new"
    /\ files = [k \in Range(file_names(cfg)) |-> NoFile]

FairSpec == FairInit /\ [][Next]_vars /\ Fairness

\* the update() call of pipeline i returns
UpdateReturns(i) == i \in Pipes /\ (UpdateOk(i) \/ UpdateErr(i))

(***************************************************************************)
(* The providers as the configuration builds them, one batch at a time.    *)
(***************************************************************************)
Tokens == {"a", "a_b"}
DuckNames == {"c", "b_c"}
Usernames == {"a", "a_b"}
Subdomains == {"c", "b_c"}
IpVersions == {"V4", "V6"}

Unstarted == UNCHANGED <<to_parse, rpc, storeVars, grabberVars, gch, pipeVars, shared, writerVars>>

ConfigFreeDns(token, ip_version) ==
    /\ rpc = "config"
    /\ Len(cfg) < MaxProviders
    /\ cfg' = Append(cfg, FreeDns_new(token, ip_version, 60))
    /\ Unstarted

ConfigDuckDns(token, name, ip_version) ==
    /\ rpc = "config"
    /\ Len(cfg) < MaxProviders
    /\ cfg' = Append(cfg, DuckDns_new(token, name, ip_version, 60))
    /\ Unstarted

ConfigOvh(username, subdomain, ip_version) ==
    /\ rpc = "config"
    /\ Len(cfg) < MaxProviders
    /\ cfg' = Append(cfg, Ovh_new(username, "p", subdomain, ip_version, 60))
    /\ Unstarted

KeysInit ==
    /\ Idle(<<>>)
    /\ rpc = "config"
    /\ files = <<>>

KeysNext ==
    \/ \E t \in Tokens : \E v \in IpVersions : ConfigFreeDns(t, v)
    \/ \E t \in Tokens : \E n \in DuckNames : \E v \in IpVersions : ConfigDuckDns(t, n, v)
    \/ \E u \in Usernames : \E d \in Subdomains : \E v \in IpVersions : ConfigOvh(u, d, v)

SpecKeys == KeysInit /\ [][KeysNext]_vars

(***************************************************************************)
(* The configuration text, built one batch at a time and then parsed as    *)
(* main does before Runner::new.                                           *)
(***************************************************************************)
MaxBatches == 3

\* batches of the grammar, with the IP version and poll seconds they carry
WellFormed ==
    { [text |-> "FD;t;ipv4;0", ip_version |-> "V4", poll_secs |-> 0],
      [text |-> "FD;t;ipv4;5", ip_version |-> "V4", poll_secs |-> 5],
      [text |-> "FD;t;ipv6;125;", ip_version |-> "V6", poll_secs |-> 125],
      [text |-> " DD;t;ipv6;60;n", ip_version |-> "V6", poll_secs |-> 60],
      [text |-> "(OVH;u;p;s;ipv4;30)", ip_version |-> "V4", poll_secs |-> 30] }

\* batches outside the grammar: no tag, unknown tag, a batch that ends early,
\* a negative number
Malformed == {"", "UNKNOWN;a;b", "FD;t", "OVH;u;p;s;ipv4", "DD;t;ipv4;60", "FD;t;ipv4;-1"}

SampleBatches == {b.text : b \in WellFormed} \cup Malformed

\* the comma-separated batches of a text
Batches(text) == Split(text, ",")

AddBatch(b) ==
    /\ rpc = "input"
    /\ Len(Batches(to_parse)) < MaxBatches
    /\ to_parse' = to_parse \o "," \o b
    /\ UNCHANGED <<cfg, rpc, storeVars, grabberVars, gch, pipeVars, shared, writerVars>>

ParseConfig ==
    /\ rpc = "input"
    /\ LET r == parse_dns_tuples(to_parse)
       IN  /\ cfg' = r.providers
           /\ rpc' = IF r.ok THEN "new" ELSE "failed"
           /\ op' = [kind |-> "parse", key |-> "", ip |-> None, path |-> NoPath,
                     res |-> IF r.ok THEN "Ok" ELSE r.err]
    /\ UNCHANGED <<to_parse, storeVars, grabberVars, gch, pipeVars, shared, inflight, wpc, replaced>>

ParseInit ==
    /\ \E b \in SampleBatches : to_parse = b
    /\ cfg = <<>>
    /\ rpc = "input"
    /\ files = <<>>
    /\ file_paths = <<>>
    /\ gpc = <<>> /\ last_ip = <<>> /\ polled = <<>> /\ polls = <<>> /\ gch = <<>>
    /\ ppc = <<>> /\ pip = <<>> /\ shared = <<>> /\ inflight = <<>> /\ wpc = "none"
    /\ emitted = <<>> /\ updates = <<>> /\ replaced = <<>>
    /\ op = OpOf(NoOp)

ParseNext ==
    \/ \E b \in SampleBatches : AddBatch(b)
    \/ ParseConfig

SpecParse == ParseInit /\ [][ParseNext]_vars

(***************************************************************************)
(* The interface-address table, written one line at a time and then read   *)
(* by the Grabber of interface eth0.                                       *)
(***************************************************************************)
MaxLines == 3

\* lines of a table (address, index, prefix, scope, flags, name), with what
\* the selection rule says of each: whether the line qualifies, and the
\* decoding of its address field ("ParseError": one of the two parse failures)
SampleLines ==
    { [text |-> "20010db8000000000000000000000001 02 40 00 00 eth0",
       qualifies |-> TRUE, res |-> "Ok", ip |-> V6(<<8193, 3512, 0, 0, 0, 0, 0, 1>>)],
      [text |-> "20010DB8000000000000000000000002 02 40 0 80     eth0",
       qualifies |-> TRUE, res |-> "Ok", ip |-> V6(<<8193, 3512, 0, 0, 0, 0, 0, 2>>)],
      [text |-> "fe800000000000000000000000000001 02 40 20 80 eth0",
       qualifies |-> FALSE, res |-> "", ip |-> None],
      [text |-> "20010db8000000000000000000000003 02 40 00 01 eth0",
       qualifies |-> FALSE, res |-> "", ip |-> None],
      [text |-> "20010db8000000000000000000000004 02 40 00 a0 eth0",
       qualifies |-> FALSE, res |-> "", ip |-> None],
      [text |-> "20010db8000000000000000000000005 02 40 00 00 wlan0",
       qualifies |-> FALSE, res |-> "", ip |-> None],
      [text |-> "20010db8000000000000000000000006 02 40 00 eth0",
       qualifies |-> FALSE, res |-> "", ip |-> None],
      [text |-> "20010db8000000000000000000000007 02 40 00 zz eth0",
       qualifies |-> FALSE, res |-> "", ip |-> None],
      [text |-> "20010db8000000000000000000000008 02 40 xx 00 eth0",
       qualifies |-> FALSE, res |-> "", ip |-> None],
      [text |-> "20010db800000000000000000000009 02 40 00 00 eth0",
       qualifies |-> TRUE, res |-> "LenMismatch", ip |-> None],
      [text |-> "20010db80000000000000000000g000a 02 40 00 00 eth0",
       qualifies |-> TRUE, res |-> "InvalidStr", ip |-> None],
      [text |-> "200#0db800000000000000000000000 02 40 00 00 eth0",
       qualifies |-> TRUE, res |-> "ParseError", ip |-> None] }

\* one more line, any of the samples, is written at the end of the table
AddLine ==
    /\ rpc = "table"
    /\ Len(Lines(files[FILE_PATH])) < MaxLines
    /\ \E l \in SampleLines : files' = [files EXCEPT ![FILE_PATH] = @ \o l.text \o "\n"]
    /\ UNCHANGED <<to_parse, cfg, rpc, file_paths, grabberVars, gch, pipeVars, shared, writerVars>>

\* one call of get_stable_global_ipv6 by the Grabber of pipeline 1
GrabV6 ==
    /\ rpc = "table"
    /\ rpc' = "grabbed"
    /\ LET r == get_stable_global_ipv6("eth0", files)
       IN  op' = [kind |-> "grab", key |-> "eth0", ip |-> r.ip, path |-> FILE_PATH,
                  res |-> r.res]
    /\ UNCHANGED <<to_parse, cfg, storeVars, grabberVars, gch, pipeVars, shared, inflight,
                   wpc, replaced>>

V6Init ==
    /\ Idle(<<FreeDns_new("t", "V6", 60)>>)
    /\ rpc = "table"
    /\ files = [p \in {FILE_PATH} |-> ""]

V6Next ==
    \/ AddLine
    \/ GrabV6

SpecV6 == V6Init /\ [][V6Next]_vars

(***************************************************************************)
(* The Persistence store called directly: replace_ip and load_ip on a      *)
(* store built from the keys of a configuration.                           *)
(***************************************************************************)
PersConfigs ==
    { <<FreeDns_new("t", "V4", 60)>>,
      <<FreeDns_new("t", "V4", 60), FreeDns_new("t", "V6", 60)>>,
      <<DuckDns_new("t", "n", "V4", 60), DuckDns_new("t", "n", "V6", 60)>>,
      <<FreeDns_new("OVH_u_s", "V4", 60), Ovh_new("u", "p", "s", "V4", 60)>>,
      <<Ovh_new("u", "p", "s", "V4", 60), FreeDns_new("OVH_u_s", "V4", 60)>> }

PersPrior == {NoFile, " 10.20.30.40\n"}

CallReplace(file_name, ip, io) ==
    /\ file_paths # <<>>
    /\ LET r == replace_ip(file_paths, files, ip, file_name, io)
       IN  /\ files' = r.files
           /\ op' = OpOf(r)
    /\ UNCHANGED <<to_parse, cfg, rpc, file_paths, grabberVars, gch, pipeVars, shared, inflight, wpc, replaced>>

CallLoad(file_name) ==
    /\ file_paths # <<>>
    /\ op' = OpOf(load_ip(file_paths, files, file_name))
    /\ UNCHANGED <<to_parse, cfg, rpc, storeVars, grabberVars, gch, pipeVars, shared, inflight, wpc, replaced>>

PersInit ==
    /\ \E c \in PersConfigs : Idle(c)
    /\ rpc = "new"
    /\ \E prior \in PersPrior : files = [k \in Range(file_names(cfg)) |-> prior]

PersNext ==
    \/ \E failing \in 0..Len(cfg) : RunnerNew(failing)
    \/ \E k \in Keys : \E ip \in MoreAddrs : \E io \in WriteOutcomes : CallReplace(k, ip, io)
    \/ \E k \in Keys : CallLoad(k)

SpecPers == PersInit /\ [][PersNext]_vars

(***************************************************************************)
(* Derived views of the histories.                                         *)
(***************************************************************************)
IpsOf(q) == [n \in 1..Len(q) |-> q[n].ip]

IsOk(u) == u.res = "ok"

\* the addresses of the update() calls of pipeline i that returned Ok, in order
OkIps(i) == IpsOf(SelectSeq(updates[i], IsOk))

\* the addresses of pipeline i that wait in the shared channel, in order
QueuedIps(i) == LET Mine(m) == m.from = i IN IpsOf(SelectSeq(shared, Mine))

\* the address pipeline i is about to forward
Forwarding(i) == IF ppc[i] = "forward" THEN <<pip[i]>> ELSE <<>>

Count(q, x) == Cardinality({n \in 1..Len(q) : q[n] = x})

\* how many replace_ip(a, k) calls the writer has made
ReplaceCalls(k, a) ==
    Sum([i \in Pipes |->
            Cardinality({n \in 1..Len(replaced[i]) :
                            replaced[i][n].file_name = k /\ replaced[i][n].ip = a})])

\* how many update(a) calls of the pipelines whose key is k have returned Ok
OkUpdates(k, a) ==
    Sum([i \in Pipes |->
            IF cfg[i].file_name = k THEN Count(updates[i], [ip |-> a, res |-> "ok"]) ELSE 0])

(***************************************************************************)
(* C1: a successfully grabbed address is sent on the output channel iff it *)
(* differs from the cached last_ip at the time of the poll (the cache      *)
(* starts empty); the cache holds the address when it is sent, no two      *)
(* consecutive sends of one Grabber carry the same address, and a repeated *)
(* address goes to the tick without a send.                                *)
(***************************************************************************)
C1_PollStep(i) ==
    (Len(polls'[i]) = Len(polls[i]) + 1 /\ polled'[i].ok) =>
        /\ (gpc'[i] = "send") <=> (polled'[i].ip # last_ip[i])
        /\ gpc'[i] = "send" => last_ip'[i] = polled'[i].ip
        /\ gpc'[i] # "send" => (gpc'[i] = "tick" /\ last_ip'[i] = last_ip[i])

C1_SendStep(i) ==
    (emitted'[i] # emitted[i]) =>
        /\ gpc[i] = "send"
        /\ emitted'[i] = Append(emitted[i], polled[i].ip)
        /\ gch'[i] = Append(gch[i], polled[i].ip)
        /\ last_ip'[i] = polled[i].ip

C1_State(i) ==
    /\ gpc[i] = "send" => (ppc[i] # "done" /\ polled[i].ok /\ last_ip[i] = polled[i].ip)
    /\ (gpc[i] = "send" /\ emitted[i] # <<>>) => Last(emitted[i]) # polled[i].ip
    /\ (gpc[i] # "send" /\ emitted[i] # <<>>) => last_ip[i] = Last(emitted[i])
    /\ (gpc[i] # "send" /\ emitted[i] = <<>>) => last_ip[i] = None
    /\ \A n \in 1..(Len(emitted[i]) - 1) : emitted[i][n] # emitted[i][n + 1]

C1_ChangeDetection ==
    /\ [][\A i \in Pipes : C1_PollStep(i) /\ C1_SendStep(i)]_vars
    /\ [](\A i \in Pipes : C1_State(i))

\* a Grabber that sent one address polled the same address again and went to the tick
C1_Witness ==
    \E i \in Pipes :
        /\ gpc[i] = "tick"
        /\ Len(emitted[i]) = 1
        /\ polled[i].ok /\ polled[i].ip = emitted[i][1]

(***************************************************************************)
(* C3: a failed update(a) forwards nothing, and update is invoked again    *)
(* only for a later address sent by the Grabber: every update call takes   *)
(* one address from the private channel, calls never outnumber the sends,  *)
(* and the call that follows a failed update(a) carries an address other   *)
(* than a.                                                                 *)
(***************************************************************************)
C3_FailStep(i) ==
    (ppc[i] = "update" /\ ppc'[i] # "update" /\ Last(updates'[i]).res = "err") =>
        /\ shared' = shared
        /\ ppc'[i] = "recv"
        /\ Len(updates'[i]) = Len(updates[i])

C3_CallStep(i) ==
    (Len(updates'[i]) # Len(updates[i])) =>
        /\ ppc[i] = "recv"
        /\ gch[i] # <<>>
        /\ gch'[i] = Tail(gch[i])
        /\ updates'[i] = Append(updates[i], [ip |-> Head(gch[i]), res |-> "pending"])

C3_State(i) ==
    /\ Len(updates[i]) + Len(gch[i]) = Len(emitted[i])
    /\ \A n \in 1..(Len(updates[i]) - 1) :
          updates[i][n].res = "err" => updates[i][n + 1].ip # updates[i][n].ip
    /\ Len(replaced[i]) + Len(QueuedIps(i)) + Len(Forwarding(i)) = Len(OkIps(i))

C3_NoRetry ==
    /\ [][\A i \in Pipes : C3_FailStep(i) /\ C3_CallStep(i)]_vars
    /\ [](\A i \in Pipes : C3_State(i))

\* a failed update was followed by the update of the next address
C3_Witness ==
    \E i \in Pipes : Len(updates[i]) >= 2 /\ updates[i][1].res = "err"

(***************************************************************************)
(* C4: the writer calls replace_ip(a, k) only after an update(a) of a      *)
(* pipeline whose key is k returned Ok, and at most once per such update.  *)
(***************************************************************************)
C4_WritesOnlySuccessful ==
    /\ \A i \in Pipes : \A n \in 1..Len(replaced[i]) : replaced[i][n].file_name \in Keys
    /\ \A k \in Keys : \A a \in AllAddrs : ReplaceCalls(k, a) <= OkUpdates(k, a)

\* a write was made although some update of the run had failed
C4_Witness ==
    /\ \E i \in Pipes : replaced[i] # <<>>
    /\ \E j \in Pipes : \E n \in 1..Len(updates[j]) : updates[j][n].res = "err"

(***************************************************************************)
(* C6: within one pipeline nothing is reordered: update is called on the   *)
(* addresses in the order the Grabber sent them, each once; the successful *)
(* ones are forwarded in that order; and the writer's replace_ip calls for *)
(* the pipeline occur in that order, with the pipeline's key.              *)
(***************************************************************************)
C6_PipelineOrder ==
    \A i \in Pipes :
        /\ emitted[i] = IpsOf(updates[i]) \o gch[i]
        /\ OkIps(i) = IpsOf(replaced[i]) \o QueuedIps(i) \o Forwarding(i)
        /\ \A n \in 1..Len(replaced[i]) : replaced[i][n].file_name = cfg[i].file_name

\* two addresses of one pipeline went all the way to the writer
C6_Witness == \E i \in Pipes : Len(replaced[i]) = 2

(***************************************************************************)
(* C10: at most one replace_ip call is in progress at any time, and a      *)
(* persistence file changes only when the writer's call completes (or when *)
(* Persistence::new creates it): no pipeline task writes a file.           *)
(***************************************************************************)
C10_SerializedWrites ==
    /\ [](Len(inflight) <= 1)
    /\ [](wpc = "write" <=> Len(inflight) = 1)
    /\ [][files' # files =>
            \/ rpc = "new"
            \/ wpc = "write" /\ inflight' = <<>> /\ wpc' = "recv"]_vars

\* a message waits in the shared channel while a write is in progress
C10_Witness == Len(inflight) = 1 /\ shared # <<>>

(***************************************************************************)
(* C2: whatever the update of one pipeline h does (fails every time, or    *)
(* never returns), for every other pipeline q whose own update calls       *)
(* return: each address q's Grabber sent is passed to q's update, each     *)
(* successful update of q is forwarded and its write completes; and no     *)
(* step of a pipeline or of the writer waits for another pipeline: a       *)
(* receive with a message, a send, and a write in progress are enabled.    *)
(***************************************************************************)
\* the n-th replace_ip call made for pipeline q has returned
WriteDone(q, n) ==
    /\ Len(replaced[q]) >= n
    /\ ~(Len(replaced[q]) = n /\ inflight # <<>> /\ Last(inflight).from = q)

C2_NotBlocked ==
    /\ \A q \in Pipes :
          /\ (ppc[q] = "recv" /\ gch[q] # <<>>) => ENABLED PipeRecv(q)
          /\ ppc[q] = "forward" => ENABLED PipeForward(q)
          /\ gpc[q] = "send" => ENABLED GrabberSend(q)
    /\ (wpc = "recv" /\ shared # <<>>) => ENABLED WriterRecv
    /\ wpc = "write" => ENABLED WriterWrite("ok")

\* The histories only grow, so "once P, eventually Q" is []<>(~P \/ Q) here.
C2_Delivered(q, n) ==
    /\ []<>(~(q \in Pipes /\ Len(emitted[q]) >= n)
              \/ (Len(updates[q]) >= n /\ updates[q][n].ip = emitted[q][n]))
    /\ []<>(~(q \in Pipes /\ Len(OkIps(q)) >= n)
              \/ (WriteDone(q, n) /\ replaced[q][n].ip = OkIps(q)[n]))

C2_FailureIsolation ==
    /\ []C2_NotBlocked
    /\ \A h \in 1..MaxProviders :
          (\A q \in (1..MaxProviders) \ {h} : WF_vars(UpdateReturns(q)))
              => \A q \in (1..MaxProviders) \ {h} : \A n \in 1..MaxPolls : C2_Delivered(q, n)

\* one pipeline is inside its first update while a write of another has completed
C2_Witness ==
    \E h \in Pipes : \E q \in Pipes \ {h} :
        /\ ppc[h] = "update" /\ Len(updates[h]) = 1
        /\ replaced[q] # <<>> /\ WriteDone(q, Len(replaced[q]))

(***************************************************************************)
(* C5: under fair scheduling, every update(a) that returned Ok in the      *)
(* pipeline with key k is eventually followed by the writer calling        *)
(* replace_ip(a, k).                                                       *)
(***************************************************************************)
\* The histories only grow, so "once P, eventually Q" is []<>(~P \/ Q) here.
C5_Replaced(i, n) ==
    []<>(~(i \in Pipes /\ Len(OkIps(i)) >= n)
           \/ (/\ Len(replaced[i]) >= n
               /\ replaced[i][n].ip = OkIps(i)[n]
               /\ replaced[i][n].file_name = cfg[i].file_name))

C5_SuccessIsWritten ==
    \A i \in 1..MaxProviders : \A n \in 1..MaxPolls : C5_Replaced(i, n)

\* every successful update of a pipeline has reached the writer
C5_Witness ==
    \E i \in Pipes :
        /\ OkIps(i) # <<>> /\ ppc[i] = "recv" /\ QueuedIps(i) = <<>>
        /\ IpsOf(replaced[i]) = OkIps(i)

(***************************************************************************)
(* C7: two providers that differ in variant, in an identifying field       *)
(* (token, name, username, subdomain) or only in IP version have different *)
(* persistence keys.                                                       *)
(***************************************************************************)
Differ(d, e) ==
    \/ d.variant # e.variant
    \/ d.token # e.token
    \/ d.name # e.name
    \/ d.username # e.username
    \/ d.subdomain # e.subdomain
    \/ d.ip_version # e.ip_version

C7_KeysUnique ==
    \A i \in 1..Len(cfg) : \A j \in 1..Len(cfg) :
        Differ(cfg[i], cfg[j]) => cfg[i].file_name # cfg[j].file_name

(***************************************************************************)
(* C8: replace_ip(key) and load_ip(key) access exactly the file whose path *)
(* was derived from that key, whatever the order of the keys and even when *)
(* one key is a suffix of another.                                         *)
(***************************************************************************)
C8_ExactResolution ==
    op.kind \in {"replace", "load"} => op.path = PathBuf_from(op.key)

(***************************************************************************)
(* C9: after a successful replace_ip(addr, key), the last of any sequence  *)
(* of calls, load_ip(key) returns exactly addr.                            *)
(***************************************************************************)
C9_RoundTrip ==
    (op.kind = "replace" /\ op.res = "Ok") =>
        LET l == load_ip(file_paths, files, op.key)
        IN  l.res = "Ok" /\ l.ip = op.ip

\* the IPv4-mapped address, whose text is "::ffff:192.0.2.10", was just written
C9_Witness ==
    /\ op.kind = "replace" /\ op.res = "Ok"
    /\ op.ip = V6(<<0, 0, 0, 0, 0, 65535, 49152, 522>>)
    /\ files[op.path] = "::ffff:192.0.2.10"

(***************************************************************************)
(* C11: a replace_ip call of the writer that returns an error (I/O error   *)
(* or unmapped key) only ends that call: the writer is back at its         *)
(* receive, the shared channel and every pipeline task are left as they    *)
(* were, and under fair scheduling every successful update made once a     *)
(* write has failed still gets its own replace_ip call, which returns.     *)
(***************************************************************************)
\* some replace_ip call of the writer has returned an error
WriteFailed ==
    \E i \in Pipes : \E n \in 1..Len(replaced[i]) : replaced[i][n].res \notin {"pending", "Ok"}

C11_FailStep ==
    (wpc = "write" /\ wpc' # "write"
        /\ Last(replaced'[Head(inflight).from]).res \notin {"pending", "Ok"}) =>
            /\ wpc' = "recv"
            /\ UNCHANGED <<rpc, grabberVars, gch, pipeVars, shared>>

\* The histories only grow, so "once P, eventually Q" is []<>(~P \/ Q) here.
C11_LaterWritten(i, n) ==
    []<>(~(i \in Pipes /\ WriteFailed /\ Len(OkIps(i)) >= n)
           \/ (/\ Len(replaced[i]) >= n
               /\ replaced[i][n].ip = OkIps(i)[n]
               /\ replaced[i][n].res # "pending"))

C11_WriterSurvives ==
    /\ [][C11_FailStep]_vars
    /\ [](wpc = "returned" => \A i \in Pipes : ppc[i] = "done")
    /\ \A i \in 1..MaxProviders : \A n \in 1..MaxPolls : C11_LaterWritten(i, n)

\* the write that followed a failed write of the same pipeline succeeded
C11_Witness ==
    \E i \in Pipes :
        /\ Len(replaced[i]) = 2
        /\ replaced[i][1].res = "Io"
        /\ replaced[i][2].res = "Ok"

(***************************************************************************)
(* C12: Persistence::new returns a store only when the key list is not     *)
(* empty and every key's file was opened, and then the store holds the     *)
(* path of every key; when one open fails or the list is empty it returns  *)
(* an error and no store, Runner::new fails, no Grabber is built and no    *)
(* task is ever started.                                                   *)
(***************************************************************************)
\* no Grabber was built and no task was started
NothingStarted ==
    /\ \A i \in Pipes : gpc[i] = "none" /\ ppc[i] = "none" /\ polls[i] = <<>>
    /\ wpc = "none"

C12_NewStep ==
    (rpc = "new" /\ rpc' # "new") =>
        /\ op'.kind = "new"
        /\ rpc' = (IF op'.res = "Ok" THEN "ready" ELSE "failed")
        /\ op'.res = "Ok" <=> (cfg # <<>> /\ op'.key = "")
        /\ op'.res = "NoFileNames" <=> cfg = <<>>
        /\ op'.res = "CannotUseFile" <=> op'.key # ""
        /\ op'.res = "Ok" => \A i \in Pipes : gpc'[i] = "built" /\ last_ip'[i] = None

C12_State ==
    /\ rpc \in {"ready", "running", "returned"} =>
          /\ op.res = "Ok"
          /\ cfg # <<>>
          /\ file_paths = [i \in Pipes |-> PathBuf_from(cfg[i].file_name)]
          /\ \A i \in Pipes : files[file_paths[i]] # NoFile
    /\ rpc = "failed" =>
          /\ op.res \in {"CannotUseFile", "NoFileNames"}
          /\ file_paths = <<>>
          /\ NothingStarted

C12_AllOrNothing ==
    /\ [][C12_NewStep]_vars
    /\ []C12_State
    /\ [][rpc = "failed" => rpc' = "failed"]_vars

\* the open of the second of two files failed after the first was created
C12_Witness ==
    /\ rpc = "failed" /\ Len(cfg) = 2
    /\ op.res = "CannotUseFile" /\ op.key = cfg[2].file_name
    /\ files[cfg[1].file_name] = ""

(***************************************************************************)
(* C13: when every comma-separated batch of the text is well-formed,       *)
(* parse_dns_tuples returns one provider per batch, in batch order, with   *)
(* the IP version and poll seconds of that batch; when any batch, at any   *)
(* position, is malformed it returns an error and no provider.             *)
(***************************************************************************)
Meaning(text) == CHOOSE b \in WellFormed : b.text = text

IsWellFormed(text) == \E b \in WellFormed : b.text = text

C13_AllOrNothing ==
    op.kind = "parse" =>
        LET bs == Batches(to_parse)
        IN  IF \A i \in 1..Len(bs) : IsWellFormed(bs[i])
            THEN /\ op.res = "Ok" /\ rpc = "new"
                 /\ Len(cfg) = Len(bs)
                 /\ \A i \in 1..Len(bs) :
                       /\ cfg[i].ip_version = Meaning(bs[i]).ip_version
                       /\ cfg[i].poll_secs = Meaning(bs[i]).poll_secs
            ELSE op.res # "Ok" /\ rpc = "failed" /\ cfg = <<>>

\* three different well-formed batches were parsed
C13_Witness ==
    /\ op.kind = "parse" /\ op.res = "Ok"
    /\ Len(cfg) = 3
    /\ cfg[1].variant = "Ovh" /\ cfg[2].variant = "DuckDns" /\ cfg[3].variant = "FreeDns"

\* a malformed last batch after two well-formed ones failed the parse
C13_WitnessFail ==
    /\ op.kind = "parse" /\ op.res # "Ok"
    /\ Len(Batches(to_parse)) = 3
    /\ IsWellFormed(Batches(to_parse)[1]) /\ IsWellFormed(Batches(to_parse)[2])

(***************************************************************************)
(* C14: the error of a failed parse is that of the first malformed batch:  *)
(* "Empty Batch found" for a batch with no tag at all, the invalid-type    *)
(* error naming the tag for an unknown tag, and the error naming the first *)
(* missing field for a batch that ends early.                              *)
(***************************************************************************)
\* the error the claim gives for each malformed batch
Expected(text) ==
    CASE text = "" -> "Empty Batch found"
      [] text = "UNKNOWN;a;b" -> "Invalid Dynamic Dns Type found: UNKNOWN"
      [] text = "FD;t" -> "No VERSION found in batch"
      [] text = "OVH;u;p;s;ipv4" -> "No POLL_SECS found in batch"
      [] text = "DD;t;ipv4;60" -> "No NAME found in batch"
      [] OTHER -> op.res

FirstMalformed(bs) == bs[CHOOSE i \in 1..Len(bs) : bs[i] \in Malformed /\ \A j \in 1..(i - 1) : bs[j] \notin Malformed]

C14_DistinctErrors ==
    (op.kind = "parse" /\ op.res # "Ok") => op.res = Expected(FirstMalformed(Batches(to_parse)))

\* the same without the batches that have no tag
C14_TaggedErrors ==
    (op.kind = "parse" /\ op.res # "Ok" /\ FirstMalformed(Batches(to_parse)) # "") =>
        op.res = Expected(FirstMalformed(Batches(to_parse)))

\* what the parser answers to a batch with no tag
C14_EmptyIsInvalidType ==
    (op.kind = "parse" /\ op.res # "Ok" /\ FirstMalformed(Batches(to_parse)) = "") =>
        op.res = "Invalid Dynamic Dns Type found: "

(***************************************************************************)
(* C15: the result of get_stable_global_ipv6 is decided by the first line  *)
(* of the table, in table order, that has at least 6 fields, names the     *)
(* configured interface, has scope 0x00 and flags without bit 0x01 and bit *)
(* 0x20: it is the decoded address of that line, or the parse failure of   *)
(* its address field; without such a line it is the none-matched failure.  *)
(***************************************************************************)
Sample(text) == CHOOSE l \in SampleLines : l.text = text

Qualifying(ls) == {n \in 1..Len(ls) : Sample(ls[n]).qualifies}

Deciding(ls) == Sample(ls[CHOOSE n \in Qualifying(ls) : \A m \in Qualifying(ls) : n <= m])

\* the result is the one the deciding line d stands for
Decided(d) ==
    IF d.res = "ParseError"
    THEN op.res \in {"LenMismatch", "InvalidStr"} /\ op.ip = None
    ELSE op.res = d.res /\ op.ip = d.ip

C15_FirstEligible ==
    op.kind = "grab" =>
        LET ls == Lines(files[FILE_PATH])
        IN  IF Qualifying(ls) = {}
            THEN op.res = "NoneMatched" /\ op.ip = None
            ELSE Decided(Deciding(ls))

\* the same for the tables whose deciding line has an address field of
\* one-byte characters
C15_FirstEligibleAscii ==
    op.kind = "grab" =>
        LET ls == Lines(files[FILE_PATH])
        IN  IF Qualifying(ls) = {}
            THEN op.res = "NoneMatched" /\ op.ip = None
            ELSE Find(Deciding(ls).text, "#", 1) = 0 => Decided(Deciding(ls))

\* the call ends in a panic, not in a result
C15_Panics == op.kind = "grab" /\ op.res = "panic"

(***************************************************************************)
(* C16: while run is active, the Grabber loop and the update loop of every *)
(* pipeline are running: neither has ended.                                *)
(***************************************************************************)
C16_NoTerminalState ==
    rpc = "running" => \A i \in Pipes : ~GrabberEnded(i) /\ ppc[i] # "done"

\* the same for the IPv4 pipelines whose poll interval is 10 seconds or more
C16_NoTerminalStateFrom10 ==
    rpc = "running" =>
        \A i \in Pipes : (cfg[i].poll_secs >= 10 /\ cfg[i].ip_version = "V4") =>
            (~GrabberEnded(i) /\ ppc[i] # "done")

\* an update loop ends only after its Grabber task has ended
C16_DoneAfterGrabber == \A i \in Pipes : ppc[i] = "done" => GrabberEnded(i)

\* no Grabber loop ends through the break taken when the receiver is gone
C16_NoCleanExit == \A i \in Pipes : gpc[i] # "stopped"

(***************************************************************************)
(* C17: run returns only when the Grabber loop and the update loop of      *)
(* every pipeline have ended, the shared channel is closed and empty, and  *)
(* every message forwarded to it was passed to replace_ip, whose call has  *)
(* returned.                                                               *)
(***************************************************************************)
C17_State ==
    rpc = "returned" =>
        /\ \A i \in Pipes : GrabberEnded(i) /\ ppc[i] = "done" /\ gch[i] = <<>>
        /\ shared = <<>> /\ inflight = <<>>
        /\ wpc = "returned"
        /\ \A i \in Pipes :
              /\ IpsOf(replaced[i]) = OkIps(i)
              /\ \A n \in 1..Len(replaced[i]) : replaced[i][n].res # "pending"

C17_ReturnsWhenDone ==
    /\ []C17_State
    /\ [][rpc' = "returned" => (rpc \in {"running", "returned"} /\ wpc \in {"recv", "returned"})]_vars
    /\ [][rpc = "returned" => UNCHANGED vars]_vars

\* run returned after a write: the Grabber of that pipeline had ended after
\* sending an address
C17_Witness == rpc = "returned" /\ \E i \in Pipes : replaced[i] # <<>>

(***************************************************************************)
(* C18: a poll that gives no address leaves last_ip as it was and sends    *)
(* nothing, so the addresses a Grabber sends are its successful polls      *)
(* without the consecutive repeats, the failed polls between them left     *)
(* out: A, failure, A sends A once, and A, failure, B sends A then B.      *)
(***************************************************************************)
Got(r) == r.ok

\* the addresses of the successful polls of a history, in order
OkPolls(h) == IpsOf(SelectSeq(h, Got))

\* q without the items that repeat the one before them
RECURSIVE Changes(_)
Changes(q) ==
    IF Len(q) <= 1 THEN q
    ELSE IF q[Len(q)] = q[Len(q) - 1] THEN Changes(SubSeq(q, 1, Len(q) - 1))
    ELSE Append(Changes(SubSeq(q, 1, Len(q) - 1)), q[Len(q)])

\* what Grabber i has sent, with the address it is about to send
Sending(i) == emitted[i] \o (IF gpc[i] = "send" THEN <<polled[i].ip>> ELSE <<>>)

C18_FailStep(i) ==
    (Len(polls'[i]) = Len(polls[i]) + 1 /\ ~Last(polls'[i]).ok) =>
        /\ last_ip'[i] = last_ip[i]
        /\ emitted' = emitted /\ gch' = gch
        /\ gpc'[i] \in {"errtick", "panicked"}

C18_FailedPollFrame ==
    /\ [][\A i \in Pipes : C18_FailStep(i)]_vars
    /\ [](\A i \in Pipes : Sending(i) = Changes(OkPolls(polls[i])))

\* the polls A, failure, A sent A once
C18_Witness ==
    \E i \in Pipes :
        /\ Len(polls[i]) = 3
        /\ polls[i][1].ok /\ ~polls[i][2].ok /\ polls[i][3] = polls[i][1]
        /\ gpc[i] = "tick"
        /\ emitted[i] = <<polls[i][1].ip>>

\* the polls A, failure, B sent A then B
C18_WitnessChange ==
    \E i \in Pipes :
        /\ Len(polls[i]) = 3
        /\ polls[i][1].ok /\ ~polls[i][2].ok /\ polls[i][3].ok
        /\ emitted[i] = <<polls[i][1].ip, polls[i][3].ip>>
        /\ polls[i][1].ip # polls[i][3].ip

(***************************************************************************)
(* C19: a Grabber comes to a poll only from the start of its loop or from  *)
(* a tick wait, so that there is one tick wait between two consecutive     *)
(* polls: the tick of the configured interval after a poll that gave an    *)
(* address, the tick of the faster interval after a poll that failed.      *)
(***************************************************************************)
\* Grabber i comes to the top of its loop
ComesToPoll(i) == gpc'[i] = "poll" /\ gpc[i] # "poll"

C19_TickKinds ==
    \A i \in Pipes :
        /\ gpc[i] = "tick" => (polls[i] # <<>> /\ Last(polls[i]).ok)
        /\ gpc[i] = "errtick" => (polls[i] # <<>> /\ ~Last(polls[i]).ok)

C19_OneTickBetweenPolls ==
    /\ [][\A i \in Pipes : ComesToPoll(i) => gpc[i] \in {"start", "tick", "errtick"}]_vars
    /\ []C19_TickKinds

\* what holds: the only way to a poll without a tick wait is the send of a
\* changed address
C19_TickUnlessSent ==
    /\ [][\A i \in Pipes :
            ComesToPoll(i) =>
                \/ gpc[i] \in {"start", "tick", "errtick"}
                \/ gpc[i] = "send" /\ emitted'[i] = Append(emitted[i], polled[i].ip)]_vars
    /\ []C19_TickKinds

(***************************************************************************)
(* C20: while the update call of a pipeline is in progress its Grabber     *)
(* makes no poll and sends no address, so at most one sent address of a    *)
(* pipeline waits for or undergoes an update.                              *)
(***************************************************************************)
\* the sent addresses of pipeline i that wait for or undergo an update
InPipeline(i) == Len(gch[i]) + (IF ppc[i] = "update" THEN 1 ELSE 0)

C20_SequentialPipeline ==
    /\ [](\A i \in Pipes : InPipeline(i) <= 1)
    /\ [][\A i \in Pipes :
            ppc[i] = "update" => (polls'[i] = polls[i] /\ emitted'[i] = emitted[i])]_vars

\* what holds: the addresses that wait are bounded by the channel only
C20_Buffered == \A i \in Pipes : Len(gch[i]) <= ChannelCapacity

\* an address waits in the private channel while the update of the one before
\* it is in progress
C20_Overlap == \E i \in Pipes : ppc[i] = "update" /\ gch[i] # <<>>

(***************************************************************************)
(* C21: the cache of a Grabber is never filled from the store: no load is  *)
(* called by Runner::new or Runner::run and last_ip is None until the      *)
(* first poll that gives an address, so that poll sends its address and    *)
(* the update loop, waiting on the private channel, takes it for an        *)
(* update() call, also when the file of the provider holds that address.   *)
(***************************************************************************)
\* no poll of Grabber i gave an address yet
NoneGot(i) == SelectSeq(polls[i], Got) = <<>>

\* the first update() call of pipeline i is still to come for the first
\* address its Grabber sent
FirstWaits(i) == emitted[i] # <<>> /\ updates[i] = <<>>

C21_FirstPollStep(i) ==
    (NoneGot(i) /\ Len(polls'[i]) = Len(polls[i]) + 1 /\ Last(polls'[i]).ok) =>
        /\ gpc'[i] = "send"
        /\ polled'[i].ip = Last(polls'[i]).ip
        /\ last_ip'[i] = Last(polls'[i]).ip

C21_FirstSendStep(i) ==
    (gpc[i] = "send" /\ gpc'[i] # "send" /\ emitted[i] = <<>>) =>
        /\ emitted'[i] = <<polled[i].ip>>
        /\ gch'[i] = <<polled[i].ip>>

C21_State(i) ==
    /\ NoneGot(i) => (last_ip[i] = None /\ emitted[i] = <<>>)
    /\ FirstWaits(i) => (gch[i] # <<>> /\ Head(gch[i]) = emitted[i][1] /\ ENABLED PipeRecv(i))
    /\ updates[i] # <<>> => updates[i][1].ip = OkPolls(polls[i])[1]

C21_ColdCache ==
    /\ [][\A i \in Pipes : C21_FirstPollStep(i) /\ C21_FirstSendStep(i)]_vars
    /\ [](op.kind # "load" /\ \A i \in Pipes : C21_State(i))

\* the first poll gave the address the file of the provider already held, and
\* update() was called with it
C21_Witness ==
    \E i \in Pipes :
        /\ Len(polls[i]) = 1 /\ polls[i][1].ok
        /\ files[cfg[i].file_name] = to_string(polls[i][1].ip)
        /\ updates[i] # <<>> /\ updates[i][1].ip = polls[i][1].ip

(***************************************************************************)
(* C22: for every POLL_SECS the parser accepts, 0 and the values below 10  *)
(* included, the period of the normal tick (poll_secs) and the period of   *)
(* the failure tick (poll_secs / 10, integer division) are periods the     *)
(* timers accept, so that the run loop of the Grabber reaches its first    *)
(* poll.                                                                   *)
(***************************************************************************)
\* IpGrabber::run gets past its two intervals
TimersStart(poll_secs) ==
    ~IntervalPanics(poll_secs) /\ ~IntervalPanics(poll_secs \div 10)

C22_TimersStart ==
    rpc = "new" => \A i \in 1..Len(cfg) : TimersStart(cfg[i].poll_secs)

\* what holds: the timers start for the accepted intervals of 10 seconds or more
C22_TimersStartFrom10 ==
    rpc = "new" => \A i \in 1..Len(cfg) : cfg[i].poll_secs >= 10 => TimersStart(cfg[i].poll_secs)

\* an accepted interval that is not zero whose failure period is zero
C22_FailurePeriodZero ==
    /\ rpc = "new"
    /\ \E i \in 1..Len(cfg) :
          /\ cfg[i].poll_secs > 0 /\ cfg[i].poll_secs \div 10 = 0
          /\ ~TimersStart(cfg[i].poll_secs)

(***************************************************************************)
(* C23: for every accepted configuration and every interleaving, when the  *)
(* shared channel is empty, no write is in progress and no write has       *)
(* failed, the file of each provider holds the text of the address of the  *)
(* last update() of that provider that returned Ok, or what it held before *)
(* the start when there was none; a successful update of one provider      *)
(* never changes the file of another.                                      *)
(***************************************************************************)
\* the file derived from the key of provider i
FileOf(i) == PathBuf_from(cfg[i].file_name)

\* nothing is on its way to the store: no address is being forwarded, the
\* shared channel is empty, no write is in progress; and no write has failed
Settled ==
    /\ \A j \in Pipes : ppc[j] # "forward"
    /\ shared = <<>>
    /\ inflight = <<>>
    /\ ~WriteFailed

C23_Stored(i) ==
    (Settled /\ OkIps(i) # <<>>) => files[FileOf(i)] = to_string(Last(OkIps(i)))

\* once run has started, the file of provider i changes only in the return of
\* a write made for a message of pipeline i
C23_OwnWritesOnly(i) ==
    (rpc = "running" /\ files'[FileOf(i)] # files[FileOf(i)]) =>
        (wpc = "write" /\ Head(inflight).from = i)

C23_EndToEnd ==
    /\ [](\A i \in Pipes : C23_Stored(i))
    /\ [][\A i \in Pipes : C23_OwnWritesOnly(i)]_vars

\* no key of the configuration ends the path of another provider
ExactKeys ==
    \A i \in Pipes : \A j \in Pipes \ {i} : ~EndsWith(FileOf(j), cfg[i].file_name)

\* what holds: the same for the configurations whose keys resolve exactly
C23_EndToEndExactKeys ==
    /\ [](ExactKeys => \A i \in Pipes : C23_Stored(i))
    /\ [][ExactKeys => \A i \in Pipes : C23_OwnWritesOnly(i)]_vars

\* two providers share a file, and after the successful update of one of them
\* the file does not hold the last address of the other
C23_SharedFile ==
    \E i \in Pipes : \E j \in Pipes \ {i} :
        /\ Settled
        /\ match_file_name(file_paths, cfg[i].file_name) = match_file_name(file_paths, cfg[j].file_name)
        /\ OkIps(i) # <<>> /\ OkIps(j) # <<>>
        /\ files[FileOf(j)] # to_string(Last(OkIps(j)))

====
